---------------------------- MODULE Spec2Model ----------------------------
(***************************************************************************)
(* A model of the Flector3D class of the Terathon Math Library             *)
(* (TSFlector3D.h): the eight-component value (p, g), its constructors,    *)
(* Set and assignment overloads, scalar multiplication, reverse and        *)
(* antireverse, the two norms, Unitize, and the MakeTransflection and      *)
(* MakeRotoreflection helpers.                                             *)
(*                                                                         *)
(* A float is modelled by an exact rational <<n, d>> in lowest terms with  *)
(* d > 0, so the arithmetic of the header is carried out without rounding. *)
(* Sqrt, InverseSqrt and CosSin belong to the library's TSMath component;  *)
(* they are modelled on the inputs whose result is rational.               *)
(***************************************************************************)
EXTENDS Integers, Sequences, FiniteSets, TLC

(***************************************************************************)
(* Bounds of the model.                                                    *)
(***************************************************************************)
MaxCoord == 1

Coords == (0 - 1) .. MaxCoord

(***************************************************************************)
(* Exact arithmetic standing for float arithmetic.                         *)
(***************************************************************************)
Abs(i) == IF i < 0 THEN 0 - i ELSE i

RECURSIVE GCD(_, _)
GCD(a, b) == IF b = 0 THEN a ELSE GCD(b, a % b)

Rat(num, den) ==
    IF den = 1 THEN <<num, 1>>
    ELSE LET s == IF den < 0 THEN 0 - 1 ELSE 1
             k == GCD(Abs(num), Abs(den))
         IN  <<(s * num) \div k, (s * den) \div k>>

Num(i) == <<i, 1>>

Zero == <<0, 1>>

One == <<1, 1>>

Half == <<1, 2>>

FAdd(a, b) == Rat(a[1] * b[2] + b[1] * a[2], a[2] * b[2])

FNeg(a) == <<0 - a[1], a[2]>>

FSub(a, b) == FAdd(a, FNeg(b))

FMul(a, b) == Rat(a[1] * b[1], a[2] * b[2])

Sq(a) == FMul(a, a)

(***************************************************************************)
(* Vector4D, Point3D, Plane3D: the component types held by a flector.      *)
(***************************************************************************)
Vector4DSet(x, y, z, w) == [x |-> x, y |-> y, z |-> z, w |-> w]

Plane3DSet(x, y, z, w) == [x |-> x, y |-> y, z |-> z, w |-> w]

Point3DSet(x, y, z) == [x |-> x, y |-> y, z |-> z]

\* Vector4D::operator =(const Point3D&): the w coordinate of a point is one.
Vector4DFromPoint3D(q) == Vector4DSet(q.x, q.y, q.z, One)

\* Vector4D::operator *=(float) and Plane3D::operator *=(float).
Scale4(v, t) == [x |-> FMul(v.x, t), y |-> FMul(v.y, t), z |-> FMul(v.z, t), w |-> FMul(v.w, t)]

Zero4 == Vector4DSet(Zero, Zero, Zero, Zero)

NumSet == {Num(i) : i \in Coords}

Vector4Ds == {Vector4DSet(x, y, z, w) : x \in NumSet, y \in NumSet, z \in NumSet, w \in NumSet}

Plane3Ds == {Plane3DSet(x, y, z, w) : x \in NumSet, y \in NumSet, z \in NumSet, w \in NumSet}

Point3Ds == {Point3DSet(x, y, z) : x \in NumSet, y \in NumSet, z \in NumSet}

Zero3 == Point3DSet(Zero, Zero, Zero)

(***************************************************************************)
(* Flector3D: constructors, Set and assignment.                            *)
(***************************************************************************)
Flector3D(px, py, pz, pw, gx, gy, gz, gw) ==
    [p |-> Vector4DSet(px, py, pz, pw), g |-> Plane3DSet(gx, gy, gz, gw)]

\* Flector3D(const Vector4D& point, const Plane3D& plane)
Flector3DFromVector4DPlane(point, plane) == [p |-> point, g |-> plane]

\* Flector3D(const Point3D& point, const Plane3D& plane)
Flector3DFromPoint3DPlane(point, plane) == [p |-> Vector4DFromPoint3D(point), g |-> plane]

\* explicit Flector3D(const Vector4D& point)
Flector3DFromVector4D(point) == [p |-> point, g |-> Plane3DSet(Zero, Zero, Zero, Zero)]

\* explicit Flector3D(const Point3D& point)
Flector3DFromPoint3D(point) ==
    [p |-> Vector4DFromPoint3D(point), g |-> Plane3DSet(Zero, Zero, Zero, Zero)]

\* A constructor from a plane that leaves the vector part as the point w = 1.
Flector3DFromPlaneNoClear(plane) == [g |-> plane, p |-> Vector4DSet(Zero, Zero, Zero, One)]

\* explicit Flector3D(const Plane3D& plane)
Flector3DFromPlane(plane) == [g |-> plane, p |-> Vector4DSet(Zero, Zero, Zero, Zero)]

\* Flector3D& Set(const Vector4D& point, const Plane3D& plane)
SetVector4DPlane(this, point, plane) == [this EXCEPT !.p = point, !.g = plane]

\* Flector3D& Set(const Point3D& point, const Plane3D& plane)
SetPoint3DPlane(this, point, plane) ==
    [this EXCEPT !.p = Vector4DFromPoint3D(point), !.g = plane]

\* Flector3D& operator =(const Flector3D& F)
OperatorAssign(this, f) == [this EXCEPT !.p = f.p, !.g = f.g]

\* Flector3D& operator =(const Vector4D& point)
AssignVector4D(this, point) ==
    [this EXCEPT !.p = point, !.g = Plane3DSet(Zero, Zero, Zero, Zero)]

\* Flector3D& operator =(const Point3D& point)
AssignPoint3D(this, point) ==
    [this EXCEPT !.p = Vector4DFromPoint3D(point), !.g = Plane3DSet(Zero, Zero, Zero, Zero)]

\* Flector3D& operator =(const Plane3D& plane)
AssignPlane(this, plane) ==
    [this EXCEPT !.g = plane, !.p = Vector4DSet(Zero, Zero, Zero, Zero)]

(***************************************************************************)
(* Scalar algebra.                                                         *)
(***************************************************************************)
\* Flector3D& operator *=(float n)
OperatorMulAssign(this, t) == [this EXCEPT !.p = Scale4(this.p, t), !.g = Scale4(this.g, t)]

\* Flector3D operator *(const Flector3D& F, float n)
OperatorMul(f, t) ==
    Flector3D(FMul(f.p.x, t), FMul(f.p.y, t), FMul(f.p.z, t), FMul(f.p.w, t),
              FMul(f.g.x, t), FMul(f.g.y, t), FMul(f.g.z, t), FMul(f.g.w, t))

\* A left product that leaves g.w unscaled.
OperatorMulLeftSkipsGw(t, f) ==
    Flector3D(FMul(t, f.p.x), FMul(t, f.p.y), FMul(t, f.p.z), FMul(t, f.p.w),
              FMul(t, f.g.x), FMul(t, f.g.y), FMul(t, f.g.z), f.g.w)

\* Flector3D operator *(float n, const Flector3D& F)
OperatorMulLeft(t, f) ==
    Flector3D(FMul(t, f.p.x), FMul(t, f.p.y), FMul(t, f.p.z), FMul(t, f.p.w),
              FMul(t, f.g.x), FMul(t, f.g.y), FMul(t, f.g.z), FMul(t, f.g.w))

Reverse(f) ==
    Flector3D(FNeg(f.p.x), FNeg(f.p.y), FNeg(f.p.z), FNeg(f.p.w), f.g.x, f.g.y, f.g.z, f.g.w)

\* An antireverse that negates the trivector part instead of the vector part.
AntireverseNegatesPlane(f) ==
    Flector3D(f.p.x, f.p.y, f.p.z, f.p.w, FNeg(f.g.x), FNeg(f.g.y), FNeg(f.g.z), FNeg(f.g.w))

Antireverse(f) ==
    Flector3D(FNeg(f.p.x), FNeg(f.p.y), FNeg(f.p.z), FNeg(f.p.w), f.g.x, f.g.y, f.g.z, f.g.w)

\* Flector3D operator ~(const Flector3D& F)
OperatorTilde(f) == Antireverse(f)

\* A negation that leaves g.w as it was.
OperatorNegSkipsGw(f) ==
    Flector3D(FNeg(f.p.x), FNeg(f.p.y), FNeg(f.p.z), FNeg(f.p.w),
              FNeg(f.g.x), FNeg(f.g.y), FNeg(f.g.z), f.g.w)

\* Flector3D operator -(const Flector3D& F)
OperatorNeg(f) ==
    Flector3D(FNeg(f.p.x), FNeg(f.p.y), FNeg(f.p.z), FNeg(f.p.w),
              FNeg(f.g.x), FNeg(f.g.y), FNeg(f.g.z), FNeg(f.g.w))

\* A bulk norm that counts p.w in place of g.w.
BulkNormRadicandCountsPw(f) == FAdd(FAdd(FAdd(Sq(f.p.x), Sq(f.p.y)), Sq(f.p.z)), Sq(f.p.w))

\* The argument BulkNorm hands to Sqrt.
BulkNormRadicand(f) == FAdd(FAdd(FAdd(Sq(f.p.x), Sq(f.p.y)), Sq(f.p.z)), Sq(f.g.w))

\* The argument WeightNorm hands to Sqrt.
WeightNormRadicand(f) == FAdd(FAdd(FAdd(Sq(f.p.w), Sq(f.g.x)), Sq(f.g.y)), Sq(f.g.z))

(***************************************************************************)
(* InverseSqrt of the library's TSMath component, on the arguments whose   *)
(* inverse square root is rational.                                        *)
(***************************************************************************)
IsSquare(i) == \E r \in 0 .. i : r * r = i

IntRoot(i) == CHOOSE r \in 0 .. i : r * r = i

HasInverseSqrt(a) == a[1] > 0 /\ IsSquare(a[1]) /\ IsSquare(a[2])

InverseSqrt(a) == <<IntRoot(a[2]), IntRoot(a[1])>>

\* Flector3D& Flector3D::Unitize(void)
UnitizeMember(this) ==
    OperatorMulAssign(this, InverseSqrt(FAdd(FAdd(FAdd(Sq(this.p.w), Sq(this.g.x)), Sq(this.g.y)), Sq(this.g.z))))

\* A Unitize that scales by the weight norm instead of its inverse.
UnitizeByNorm(f) ==
    LET r == InverseSqrt(FAdd(FAdd(FAdd(Sq(f.p.w), Sq(f.g.x)), Sq(f.g.y)), Sq(f.g.z)))
    IN  OperatorMul(f, <<r[2], r[1]>>)

\* Flector3D Unitize(const Flector3D& F)
Unitize(f) ==
    OperatorMul(f, InverseSqrt(FAdd(FAdd(FAdd(Sq(f.p.w), Sq(f.g.x)), Sq(f.g.y)), Sq(f.g.z))))

(***************************************************************************)
(* CosSin of the library's TSMath component.  An angle is counted in units *)
(* of the angle whose cosine is 3/5 and whose sine is 4/5, so that the     *)
(* cosine and sine of every whole number of units are rational.            *)
(***************************************************************************)
MaxTurns == 1

CosUnit == <<3, 5>>

SinUnit == <<4, 5>>

RECURSIVE CosSinTurns(_)
CosSinTurns(j) ==
    IF j = 0 THEN [x |-> One, y |-> Zero]
    ELSE IF j < 0 THEN LET t == CosSinTurns(0 - j) IN [x |-> t.x, y |-> FNeg(t.y)]
    ELSE LET t == CosSinTurns(j - 1)
         IN  [x |-> FSub(FMul(t.x, CosUnit), FMul(t.y, SinUnit)),
              y |-> FAdd(FMul(t.y, CosUnit), FMul(t.x, SinUnit))]

\* Vector2D CosSin(float): (cos, sin) of a whole number of units.
CosSin(a) == CosSinTurns(a[1])

Angles == {Num(2 * j) : j \in (0 - MaxTurns) .. MaxTurns}

Vector3Ds == Point3Ds

Cross3(a, b) ==
    Point3DSet(FSub(FMul(a.y, b.z), FMul(a.z, b.y)),
               FSub(FMul(a.z, b.x), FMul(a.x, b.z)),
               FSub(FMul(a.x, b.y), FMul(a.y, b.x)))

\* The points the lines of the model pass through: the origin and the unit
\* point of each axis.
LineAnchors ==
    {Zero3, Point3DSet(One, Zero, Zero), Point3DSet(Zero, One, Zero), Point3DSet(Zero, Zero, One)}

\* A Line3D through the point q with direction v has the moment q x v.
Line3Ds == {[v |-> d, m |-> Cross3(q, d)] : d \in Vector3Ds, q \in LineAnchors}

(***************************************************************************)
(* Construction helpers.                                                   *)
(***************************************************************************)
\* A transflection whose trivector part is the plane scaled by one half.
MakeTransflectionHalvesPlane(off, h) ==
    Flector3D(FMul(FSub(FMul(off.y, h.z), FMul(off.z, h.y)), Half),
              FMul(FSub(FMul(off.z, h.x), FMul(off.x, h.z)), Half),
              FMul(FSub(FMul(off.x, h.y), FMul(off.y, h.x)), Half),
              Zero,
              FMul(h.x, Half), FMul(h.y, Half), FMul(h.z, Half),
              FMul(FSub(h.w, FAdd(FAdd(FMul(off.x, h.x), FMul(off.y, h.y)), FMul(off.z, h.z))), Half))

\* A transflection that halves plane.w along with the offset term.
MakeTransflectionHalvesPlaneW(off, h) ==
    Flector3D(FMul(FSub(FMul(off.y, h.z), FMul(off.z, h.y)), Half),
              FMul(FSub(FMul(off.z, h.x), FMul(off.x, h.z)), Half),
              FMul(FSub(FMul(off.x, h.y), FMul(off.y, h.x)), Half),
              Zero,
              h.x, h.y, h.z,
              FMul(FSub(h.w, FAdd(FAdd(FMul(off.x, h.x), FMul(off.y, h.y)), FMul(off.z, h.z))), Half))

\* static Flector3D MakeTransflection(const Vector3D& offset, const Plane3D& plane)
MakeTransflection(off, h) ==
    Flector3D(FMul(FSub(FMul(off.y, h.z), FMul(off.z, h.y)), Half),
              FMul(FSub(FMul(off.z, h.x), FMul(off.x, h.z)), Half),
              FMul(FSub(FMul(off.x, h.y), FMul(off.y, h.x)), Half),
              Zero,
              h.x, h.y, h.z,
              FSub(h.w, FMul(FAdd(FAdd(FMul(off.x, h.x), FMul(off.y, h.y)), FMul(off.z, h.z)), Half)))

\* A rotoreflection about a bivector that leaves plane.w unscaled in g.w.
MakeRotoreflectionBivectorPlainGw(ang, ax, h) ==
    LET t == CosSin(FMul(ang, Half))
        vx == FMul(ax.x, t.y)
        vy == FMul(ax.y, t.y)
        vz == FMul(ax.z, t.y)
    IN  Flector3D(FMul(vx, h.w), FMul(vy, h.w), FMul(vz, h.w),
                  FSub(FSub(FMul(FNeg(vx), h.x), FMul(vy, h.y)), FMul(vz, h.z)),
                  FSub(FAdd(FMul(t.x, h.x), FMul(vy, h.z)), FMul(vz, h.y)),
                  FSub(FAdd(FMul(t.x, h.y), FMul(vz, h.x)), FMul(vx, h.z)),
                  FSub(FAdd(FMul(t.x, h.z), FMul(vx, h.y)), FMul(vy, h.x)),
                  h.w)

\* static Flector3D MakeRotoreflection(float angle, const Bivector3D& axis, const Plane3D& plane)
MakeRotoreflectionBivector(ang, ax, h) ==
    LET t == CosSin(FMul(ang, Half))
        vx == FMul(ax.x, t.y)
        vy == FMul(ax.y, t.y)
        vz == FMul(ax.z, t.y)
    IN  Flector3D(FMul(vx, h.w), FMul(vy, h.w), FMul(vz, h.w),
                  FSub(FSub(FMul(FNeg(vx), h.x), FMul(vy, h.y)), FMul(vz, h.z)),
                  FSub(FAdd(FMul(t.x, h.x), FMul(vy, h.z)), FMul(vz, h.y)),
                  FSub(FAdd(FMul(t.x, h.y), FMul(vz, h.x)), FMul(vx, h.z)),
                  FSub(FAdd(FMul(t.x, h.z), FMul(vx, h.y)), FMul(vy, h.x)),
                  FMul(t.x, h.w))

\* A rotoreflection about a line with the sign of vx * plane.z flipped in g.y.
MakeRotoreflectionLineSignSlip(ang, ax, h) ==
    LET t == CosSin(FMul(ang, Half))
        vx == FMul(ax.v.x, t.y)
        vy == FMul(ax.v.y, t.y)
        vz == FMul(ax.v.z, t.y)
        mx == FMul(ax.m.x, t.y)
        my == FMul(ax.m.y, t.y)
        mz == FMul(ax.m.z, t.y)
    IN  Flector3D(FSub(FAdd(FMul(vx, h.w), FMul(my, h.z)), FMul(mz, h.y)),
                  FSub(FAdd(FMul(vy, h.w), FMul(mz, h.x)), FMul(mx, h.z)),
                  FSub(FAdd(FMul(vz, h.w), FMul(mx, h.y)), FMul(my, h.x)),
                  FSub(FSub(FMul(FNeg(vx), h.x), FMul(vy, h.y)), FMul(vz, h.z)),
                  FSub(FAdd(FMul(t.x, h.x), FMul(vy, h.z)), FMul(vz, h.y)),
                  FAdd(FAdd(FMul(t.x, h.y), FMul(vz, h.x)), FMul(vx, h.z)),
                  FSub(FAdd(FMul(t.x, h.z), FMul(vx, h.y)), FMul(vy, h.x)),
                  FSub(FSub(FSub(FMul(t.x, h.w), FMul(mx, h.x)), FMul(my, h.y)), FMul(mz, h.z)))

\* static Flector3D MakeRotoreflection(float angle, const Line3D& axis, const Plane3D& plane)
MakeRotoreflectionLine(ang, ax, h) ==
    LET t == CosSin(FMul(ang, Half))
        vx == FMul(ax.v.x, t.y)
        vy == FMul(ax.v.y, t.y)
        vz == FMul(ax.v.z, t.y)
        mx == FMul(ax.m.x, t.y)
        my == FMul(ax.m.y, t.y)
        mz == FMul(ax.m.z, t.y)
    IN  Flector3D(FSub(FAdd(FMul(vx, h.w), FMul(my, h.z)), FMul(mz, h.y)),
                  FSub(FAdd(FMul(vy, h.w), FMul(mz, h.x)), FMul(mx, h.z)),
                  FSub(FAdd(FMul(vz, h.w), FMul(mx, h.y)), FMul(my, h.x)),
                  FSub(FSub(FMul(FNeg(vx), h.x), FMul(vy, h.y)), FMul(vz, h.z)),
                  FSub(FAdd(FMul(t.x, h.x), FMul(vy, h.z)), FMul(vz, h.y)),
                  FSub(FAdd(FMul(t.x, h.y), FMul(vz, h.x)), FMul(vx, h.z)),
                  FSub(FAdd(FMul(t.x, h.z), FMul(vx, h.y)), FMul(vy, h.x)),
                  FSub(FSub(FSub(FMul(t.x, h.w), FMul(mx, h.x)), FMul(my, h.y)), FMul(mz, h.z)))

\* bool operator ==(const Flector3D& a, const Flector3D& b)
OperatorEq(a, b) ==
    /\ (a.p.x = b.p.x /\ a.p.y = b.p.y /\ a.p.z = b.p.z /\ a.p.w = b.p.w)
    /\ (a.g.x = b.g.x /\ a.g.y = b.g.y /\ a.g.z = b.g.z /\ a.g.w = b.g.w)

(***************************************************************************)
(* The volatile Set and assignment overloads.  Each stores the vector part *)
(* and then the trivector part; a part is stored one float at a time.      *)
(* Float i of a flector, in the order of the stores, is field Fields[i].   *)
(***************************************************************************)
Fields == <<<<"p", "x">>, <<"p", "y">>, <<"p", "z">>, <<"p", "w">>,
            <<"g", "x">>, <<"g", "y">>, <<"g", "z">>, <<"g", "w">>>>

FieldOf(f, i) == f[Fields[i][1]][Fields[i][2]]

StoreField(f, i, value) == [f EXCEPT ![Fields[i][1]][Fields[i][2]] = value]

\* The i-th store of void Set(float px, ..., float gw) volatile
VolatileSetFloats(this, src, i) == StoreField(this, i, FieldOf(src, i))

\* The i-th store of void Set(const Vector4D& point, const Plane3D& plane) volatile
VolatileSetVector4DPlane(this, src, i) == StoreField(this, i, FieldOf(src, i))

\* A volatile assignment that stores p and leaves g as it was.
VolatileAssignSkipsPlane(this, src, i) ==
    IF Fields[i][1] = "g" THEN this ELSE StoreField(this, i, FieldOf(src, i))

\* The i-th store of void operator =(const Flector3D& F) volatile
VolatileAssign(this, src, i) == StoreField(this, i, FieldOf(src, i))

(***************************************************************************)
(* State.                                                                  *)
(*   F          the flector object the operations act on                   *)
(*   orig       the value of F before the operation                        *)
(*   op         the operation that ran last                                *)
(*   ret        what it returned: <<>> nothing, <<"this">> a reference to  *)
(*              the receiver, <<"value", f>> a flector by value            *)
(*   point, plane, n   the arguments it was called with                    *)
(*   bulkArg, weightArg   the arguments BulkNorm and WeightNorm handed to  *)
(*              Sqrt, <<>> before the call                                 *)
(*   offset, axis, angle  the arguments of the Make... helpers             *)
(*   newval, wpc, rpc, seen, late   the volatile writer and its reader     *)
(*   before     the value of F before the last F = Op(F) of a chain        *)
(***************************************************************************)
VARIABLES F, orig, op, ret, point, plane, n, bulkArg, weightArg,
          offset, axis, angle, newval, wpc, rpc, seen, late, before

vars == <<F, orig, op, ret, point, plane, n, bulkArg, weightArg,
          offset, axis, angle, newval, wpc, rpc, seen, late, before>>

makeVars == <<offset, axis, angle>>

volVars == <<newval, wpc, rpc, seen, late>>

Scalars == NumSet

Zero8 == [p |-> Zero4, g |-> Zero4]

NoValueArgs == point = Zero4 /\ plane = Zero4 /\ n = Zero

NoNorms == bulkArg = <<>> /\ weightArg = <<>>

NoMakeArgs == offset = Zero3 /\ axis = [v |-> Zero3, m |-> Zero3] /\ angle = Zero

NoVolatile == newval = Zero8 /\ wpc = 0 /\ rpc = 0 /\ seen = Zero8 /\ late = FALSE

(***************************************************************************)
(* The scalar algebra: a flector constructed from eight floats, and one    *)
(* operation on it.                                                        *)
(***************************************************************************)
Init ==
    /\ \E px \in NumSet, py \in NumSet, pz \in NumSet, pw \in NumSet,
          gx \in NumSet, gy \in NumSet, gz \in NumSet, gw \in NumSet :
              F = Flector3D(px, py, pz, pw, gx, gy, gz, gw)
    /\ orig = F
    /\ op = "Flector3D"
    /\ ret = <<>>
    /\ NoValueArgs
    /\ NoNorms
    /\ NoMakeArgs
    /\ NoVolatile
    /\ before = Zero8

Fresh == op = "Flector3D" /\ NoNorms

\* F *= t
CallOperatorMulAssign ==
    /\ Fresh
    /\ \E t \in Scalars :
        /\ F' = OperatorMulAssign(F, t)
        /\ n' = t
    /\ op' = "operator *="
    /\ ret' = <<"this">>
    /\ UNCHANGED <<orig, point, plane, bulkArg, weightArg, makeVars, volVars, before>>

\* F * t
CallOperatorMul ==
    /\ Fresh
    /\ \E t \in Scalars :
        /\ ret' = <<"value", OperatorMul(F, t)>>
        /\ n' = t
    /\ op' = "operator *(F, n)"
    /\ UNCHANGED <<F, orig, point, plane, bulkArg, weightArg, makeVars, volVars, before>>

\* t * F
CallOperatorMulLeft ==
    /\ Fresh
    /\ \E t \in Scalars :
        /\ ret' = <<"value", OperatorMulLeft(t, F)>>
        /\ n' = t
    /\ op' = "operator *(n, F)"
    /\ UNCHANGED <<F, orig, point, plane, bulkArg, weightArg, makeVars, volVars, before>>

CallReverse ==
    /\ Fresh
    /\ ret' = <<"value", Reverse(F)>>
    /\ op' = "Reverse"
    /\ UNCHANGED <<F, orig, point, plane, n, bulkArg, weightArg, makeVars, volVars, before>>

CallAntireverse ==
    /\ Fresh
    /\ ret' = <<"value", Antireverse(F)>>
    /\ op' = "Antireverse"
    /\ UNCHANGED <<F, orig, point, plane, n, bulkArg, weightArg, makeVars, volVars, before>>

CallOperatorTilde ==
    /\ Fresh
    /\ ret' = <<"value", OperatorTilde(F)>>
    /\ op' = "operator ~"
    /\ UNCHANGED <<F, orig, point, plane, n, bulkArg, weightArg, makeVars, volVars, before>>

CallOperatorNeg ==
    /\ Fresh
    /\ ret' = <<"value", OperatorNeg(F)>>
    /\ op' = "operator -"
    /\ UNCHANGED <<F, orig, point, plane, n, bulkArg, weightArg, makeVars, volVars, before>>

\* BulkNorm(F) and WeightNorm(F) read F and return the square root of a sum of
\* squares; the sum is recorded.
CallBulkNorm ==
    /\ op = "Flector3D"
    /\ bulkArg = <<>>
    /\ bulkArg' = BulkNormRadicand(F)
    /\ UNCHANGED <<F, orig, op, ret, point, plane, n, weightArg, makeVars, volVars, before>>

CallWeightNorm ==
    /\ op = "Flector3D"
    /\ weightArg = <<>>
    /\ weightArg' = WeightNormRadicand(F)
    /\ UNCHANGED <<F, orig, op, ret, point, plane, n, bulkArg, makeVars, volVars, before>>

\* F.Unitize(), where the inverse square root of the weight is rational.
CallUnitizeMember ==
    /\ Fresh
    /\ HasInverseSqrt(WeightNormRadicand(F))
    /\ F' = UnitizeMember(F)
    /\ op' = "Flector3D::Unitize"
    /\ ret' = <<"this">>
    /\ UNCHANGED <<orig, point, plane, n, bulkArg, weightArg, makeVars, volVars, before>>

\* Unitize(F), where the inverse square root of the weight is rational.
CallUnitize ==
    /\ Fresh
    /\ HasInverseSqrt(WeightNormRadicand(F))
    /\ ret' = <<"value", Unitize(F)>>
    /\ op' = "Unitize"
    /\ UNCHANGED <<F, orig, point, plane, n, bulkArg, weightArg, makeVars, volVars, before>>

Next ==
    \/ CallOperatorMulAssign
    \/ CallOperatorMul
    \/ CallOperatorMulLeft
    \/ CallReverse
    \/ CallAntireverse
    \/ CallOperatorTilde
    \/ CallOperatorNeg
    \/ CallBulkNorm
    \/ CallWeightNorm
    \/ CallUnitizeMember
    \/ CallUnitize

Spec == Init /\ [][Next]_vars

(***************************************************************************)
(* Construction and assignment from points and planes.  The object holds   *)
(* some earlier value; a constructor makes a new object in its place.      *)
(***************************************************************************)
Receivers == {Flector3D(a, a, a, a, a, a, a, a) : a \in NumSet}

InitBuild ==
    /\ F \in Receivers
    /\ orig = F
    /\ op = "Flector3D"
    /\ ret = <<>>
    /\ NoValueArgs
    /\ NoNorms
    /\ NoMakeArgs
    /\ NoVolatile
    /\ before = Zero8

buildFrame == <<orig, n, bulkArg, weightArg, makeVars, volVars, before>>

NewFromVector4DPlane ==
    /\ op = "Flector3D"
    /\ \E q \in Vector4Ds, h \in Plane3Ds :
        /\ F' = Flector3DFromVector4DPlane(q, h)
        /\ point' = q
        /\ plane' = h
    /\ op' = "Flector3D(Vector4D, Plane3D)"
    /\ ret' = <<>>
    /\ UNCHANGED buildFrame

NewFromPoint3DPlane ==
    /\ op = "Flector3D"
    /\ \E q \in Point3Ds, h \in Plane3Ds :
        /\ F' = Flector3DFromPoint3DPlane(q, h)
        /\ point' = q
        /\ plane' = h
    /\ op' = "Flector3D(Point3D, Plane3D)"
    /\ ret' = <<>>
    /\ UNCHANGED buildFrame

NewFromVector4D ==
    /\ op = "Flector3D"
    /\ \E q \in Vector4Ds :
        /\ F' = Flector3DFromVector4D(q)
        /\ point' = q
    /\ op' = "Flector3D(Vector4D)"
    /\ ret' = <<>>
    /\ UNCHANGED <<plane, buildFrame>>

NewFromPoint3D ==
    /\ op = "Flector3D"
    /\ \E q \in Point3Ds :
        /\ F' = Flector3DFromPoint3D(q)
        /\ point' = q
    /\ op' = "Flector3D(Point3D)"
    /\ ret' = <<>>
    /\ UNCHANGED <<plane, buildFrame>>

NewFromPlane ==
    /\ op = "Flector3D"
    /\ \E h \in Plane3Ds :
        /\ F' = Flector3DFromPlane(h)
        /\ plane' = h
    /\ op' = "Flector3D(Plane3D)"
    /\ ret' = <<>>
    /\ UNCHANGED <<point, buildFrame>>

CallSetVector4DPlane ==
    /\ op = "Flector3D"
    /\ \E q \in Vector4Ds, h \in Plane3Ds :
        /\ F' = SetVector4DPlane(F, q, h)
        /\ point' = q
        /\ plane' = h
    /\ op' = "Set(Vector4D, Plane3D)"
    /\ ret' = <<"this">>
    /\ UNCHANGED buildFrame

CallSetPoint3DPlane ==
    /\ op = "Flector3D"
    /\ \E q \in Point3Ds, h \in Plane3Ds :
        /\ F' = SetPoint3DPlane(F, q, h)
        /\ point' = q
        /\ plane' = h
    /\ op' = "Set(Point3D, Plane3D)"
    /\ ret' = <<"this">>
    /\ UNCHANGED buildFrame

CallAssignVector4D ==
    /\ op = "Flector3D"
    /\ \E q \in Vector4Ds :
        /\ F' = AssignVector4D(F, q)
        /\ point' = q
    /\ op' = "operator =(Vector4D)"
    /\ ret' = <<"this">>
    /\ UNCHANGED <<plane, buildFrame>>

CallAssignPoint3D ==
    /\ op = "Flector3D"
    /\ \E q \in Point3Ds :
        /\ F' = AssignPoint3D(F, q)
        /\ point' = q
    /\ op' = "operator =(Point3D)"
    /\ ret' = <<"this">>
    /\ UNCHANGED <<plane, buildFrame>>

CallAssignPlane ==
    /\ op = "Flector3D"
    /\ \E h \in Plane3Ds :
        /\ F' = AssignPlane(F, h)
        /\ plane' = h
    /\ op' = "operator =(Plane3D)"
    /\ ret' = <<"this">>
    /\ UNCHANGED <<point, buildFrame>>

NextBuild ==
    \/ NewFromVector4DPlane
    \/ NewFromPoint3DPlane
    \/ NewFromVector4D
    \/ NewFromPoint3D
    \/ NewFromPlane
    \/ CallSetVector4DPlane
    \/ CallSetPoint3DPlane
    \/ CallAssignVector4D
    \/ CallAssignPoint3D
    \/ CallAssignPlane

SpecBuild == InitBuild /\ [][NextBuild]_vars

(***************************************************************************)
(* The construction helpers: static functions of a plane and an offset, a  *)
(* bivector or a line.                                                     *)
(***************************************************************************)
InitMake ==
    /\ F = Zero8
    /\ orig = Zero8
    /\ op = "none"
    /\ ret = <<>>
    /\ point = Zero4
    /\ plane \in Plane3Ds
    /\ n = Zero
    /\ NoNorms
    /\ NoMakeArgs
    /\ NoVolatile
    /\ before = Zero8

makeFrame == <<F, orig, point, plane, n, bulkArg, weightArg, volVars, before>>

CallMakeTransflection ==
    /\ op = "none"
    /\ \E off \in Vector3Ds :
        /\ ret' = <<"value", MakeTransflection(off, plane)>>
        /\ offset' = off
    /\ op' = "MakeTransflection"
    /\ UNCHANGED <<axis, angle, makeFrame>>

CallMakeRotoreflectionBivector ==
    /\ op = "none"
    /\ \E ang \in Angles, ax \in Vector3Ds :
        /\ ret' = <<"value", MakeRotoreflectionBivector(ang, ax, plane)>>
        /\ angle' = ang
        /\ axis' = [v |-> ax, m |-> Zero3]
    /\ op' = "MakeRotoreflection(Bivector3D)"
    /\ UNCHANGED <<offset, makeFrame>>

CallMakeRotoreflectionLine ==
    /\ op = "none"
    /\ \E ang \in Angles, ax \in Line3Ds :
        /\ ret' = <<"value", MakeRotoreflectionLine(ang, ax, plane)>>
        /\ angle' = ang
        /\ axis' = ax
    /\ op' = "MakeRotoreflection(Line3D)"
    /\ UNCHANGED <<offset, makeFrame>>

NextMake ==
    \/ CallMakeTransflection
    \/ CallMakeRotoreflectionBivector
    \/ CallMakeRotoreflectionLine

SpecMake == InitMake /\ [][NextMake]_vars

(***************************************************************************)
(* One writer storing newval into F through a volatile overload, and one   *)
(* reader copying F into seen float by float, with no synchronization      *)
(* between them.  late records that the reader began after the writer's    *)
(* last store.                                                             *)
(***************************************************************************)
VolatileValues == {Flector3D(a, b, a, b, b, a, b, a) : a \in NumSet, b \in NumSet}

VolatileOverloads == {"Set(float x 8) volatile", "Set(Vector4D, Plane3D) volatile",
                      "operator =(Flector3D) volatile"}

InitVolatile ==
    /\ F \in VolatileValues
    /\ orig = F
    /\ op \in VolatileOverloads
    /\ ret = <<>>
    /\ NoValueArgs
    /\ NoNorms
    /\ NoMakeArgs
    /\ newval \in VolatileValues
    /\ wpc = 0
    /\ rpc = 0
    /\ seen = Zero8
    /\ late = FALSE
    /\ before = Zero8

volFrame == <<orig, op, ret, point, plane, n, bulkArg, weightArg, makeVars, newval, before>>

WriterSetFloats ==
    /\ op = "Set(float x 8) volatile"
    /\ wpc < Len(Fields)
    /\ F' = VolatileSetFloats(F, newval, wpc + 1)
    /\ wpc' = wpc + 1
    /\ UNCHANGED <<rpc, seen, late, volFrame>>

WriterSetVector4DPlane ==
    /\ op = "Set(Vector4D, Plane3D) volatile"
    /\ wpc < Len(Fields)
    /\ F' = VolatileSetVector4DPlane(F, newval, wpc + 1)
    /\ wpc' = wpc + 1
    /\ UNCHANGED <<rpc, seen, late, volFrame>>

WriterAssign ==
    /\ op = "operator =(Flector3D) volatile"
    /\ wpc < Len(Fields)
    /\ F' = VolatileAssign(F, newval, wpc + 1)
    /\ wpc' = wpc + 1
    /\ UNCHANGED <<rpc, seen, late, volFrame>>

ReaderLoad ==
    /\ rpc < Len(Fields)
    /\ seen' = StoreField(seen, rpc + 1, FieldOf(F, rpc + 1))
    /\ rpc' = rpc + 1
    /\ late' = IF rpc = 0 THEN wpc = Len(Fields) ELSE late
    /\ UNCHANGED <<F, wpc, volFrame>>

NextVolatile ==
    \/ WriterSetFloats
    \/ WriterSetVector4DPlane
    \/ WriterAssign
    \/ ReaderLoad

SpecVolatile == InitVolatile /\ [][NextVolatile]_vars

(***************************************************************************)
(* Chains of negation, Reverse, Antireverse and operator ~: each step is   *)
(* F = Op(F), the operation's value assigned back to F.                    *)
(***************************************************************************)
InitChain ==
    /\ \E px \in NumSet, py \in NumSet, pz \in NumSet, pw \in NumSet,
          gx \in NumSet, gy \in NumSet, gz \in NumSet, gw \in NumSet :
              F = Flector3D(px, py, pz, pw, gx, gy, gz, gw)
    /\ orig = F
    /\ op = "Flector3D"
    /\ ret = <<>>
    /\ NoValueArgs
    /\ NoNorms
    /\ NoMakeArgs
    /\ NoVolatile
    /\ before = F

chainFrame == <<orig, ret, point, plane, n, bulkArg, weightArg, makeVars, volVars>>

\* F = -F
ChainOperatorNeg ==
    /\ F' = OperatorAssign(F, OperatorNeg(F))
    /\ before' = F
    /\ op' = "operator -"
    /\ UNCHANGED chainFrame

\* F = Reverse(F)
ChainReverse ==
    /\ F' = OperatorAssign(F, Reverse(F))
    /\ before' = F
    /\ op' = "Reverse"
    /\ UNCHANGED chainFrame

\* F = Antireverse(F)
ChainAntireverse ==
    /\ F' = OperatorAssign(F, Antireverse(F))
    /\ before' = F
    /\ op' = "Antireverse"
    /\ UNCHANGED chainFrame

\* F = ~F
ChainOperatorTilde ==
    /\ F' = OperatorAssign(F, OperatorTilde(F))
    /\ before' = F
    /\ op' = "operator ~"
    /\ UNCHANGED chainFrame

NextChain ==
    \/ ChainOperatorNeg
    \/ ChainReverse
    \/ ChainAntireverse
    \/ ChainOperatorTilde

SpecChain == InitChain /\ [][NextChain]_vars

(***************************************************************************)
(* Properties.                                                             *)
(***************************************************************************)
IntOf(a) == a[1]

IsInt(a) == a[2] = 1

Components(f) == <<f.p.x, f.p.y, f.p.z, f.p.w, f.g.x, f.g.y, f.g.z, f.g.w>>

\* The squared weight p.w^2 + g.x^2 + g.y^2 + g.z^2 of a flector.
WeightSquared(f) == FAdd(FAdd(FAdd(Sq(f.p.w), Sq(f.g.x)), Sq(f.g.y)), Sq(f.g.z))

\* C3: once BulkNorm(F) and WeightNorm(F) have both run, the two arguments
\* handed to Sqrt add up to the sum of the squares of all eight components of
\* F; the bulk one is p.x^2 + p.y^2 + p.z^2 + g.w^2 and the weight one is
\* p.w^2 + g.x^2 + g.y^2 + g.z^2.
C3_NormDecomposition ==
    (bulkArg # <<>> /\ weightArg # <<>>) =>
        LET c == [i \in 1 .. 8 |-> IntOf(Components(F)[i])]
        IN  /\ \A i \in 1 .. 8 : IsInt(Components(F)[i])
            /\ FAdd(bulkArg, weightArg) =
                   Num(c[1] * c[1] + c[2] * c[2] + c[3] * c[3] + c[4] * c[4]
                       + c[5] * c[5] + c[6] * c[6] + c[7] * c[7] + c[8] * c[8])
            /\ bulkArg = Num(c[1] * c[1] + c[2] * c[2] + c[3] * c[3] + c[8] * c[8])
            /\ weightArg = Num(c[4] * c[4] + c[5] * c[5] + c[6] * c[6] + c[7] * c[7])

C3_Witness ==
    /\ bulkArg # <<>>
    /\ weightArg # <<>>
    /\ bulkArg # weightArg
    /\ F.p.w # Zero
    /\ F.g.w = Zero
    /\ F.p.x = Num(0 - 1)

\* u is f with every component multiplied by the positive factor r for which
\* r * r * (weight of f) = 1.
ScaledByInverseWeight(u, f) ==
    LET w2 == WeightSquared(f)
    IN  \A i \in 1 .. 8 :
            LET c == Components(f)[i]
                d == Components(u)[i]
            IN  /\ d[1] * d[1] * w2[1] * c[2] * c[2] = c[1] * c[1] * d[2] * d[2] * w2[2]
                /\ (d[1] > 0) = (c[1] > 0)
                /\ (d[1] < 0) = (c[1] < 0)

\* C4: Flector3D::Unitize leaves in F, and Unitize(F) returns, the flector
\* whose eight components are those of the original multiplied by
\* 1/sqrt(p.w^2 + g.x^2 + g.y^2 + g.z^2); its squared weight is 1; the member
\* returns the receiver and the free function leaves F as it was.
C4_Unitize ==
    /\ op = "Flector3D::Unitize" =>
          /\ ScaledByInverseWeight(F, orig)
          /\ WeightSquared(F) = One
          /\ ret = <<"this">>
    /\ op = "Unitize" =>
          /\ ScaledByInverseWeight(ret[2], orig)
          /\ WeightSquared(ret[2]) = One
          /\ F = orig

C4_Witness ==
    /\ op = "Unitize"
    /\ orig.p.x = One
    /\ ret[2].p.x = Half
    /\ ret[2].g.y = FNeg(Half)
    /\ WeightSquared(orig) = Num(4)

\* The flector with the vector part of f negated and its trivector part kept.
VectorPartNegated(f) ==
    [p |-> [x |-> Num(0 - IntOf(f.p.x)), y |-> Num(0 - IntOf(f.p.y)),
            z |-> Num(0 - IntOf(f.p.z)), w |-> Num(0 - IntOf(f.p.w))],
     g |-> f.g]

\* C6: Reverse(F), Antireverse(F) and ~F each return the flector with p.x,
\* p.y, p.z, p.w negated and g.x, g.y, g.z, g.w unchanged, and leave F as it
\* was.
C6_ReverseAntireverse ==
    op \in {"Reverse", "Antireverse", "operator ~"} =>
        /\ ret = <<"value", VectorPartNegated(orig)>>
        /\ F = orig

C6_Witness ==
    /\ op = "operator ~"
    /\ orig.p.x = One
    /\ orig.p.w = Num(0 - 1)
    /\ orig.g.x = One
    /\ orig.g.w = Num(0 - 1)
    /\ ret[2].p.x = Num(0 - 1)
    /\ ret[2].g.x = One

\* The flector with every component of f multiplied by t.
EachTimes(f, t) ==
    LET m(c) == Num(IntOf(t) * IntOf(c))
    IN  [p |-> [x |-> m(f.p.x), y |-> m(f.p.y), z |-> m(f.p.z), w |-> m(f.p.w)],
         g |-> [x |-> m(f.g.x), y |-> m(f.g.y), z |-> m(f.g.z), w |-> m(f.g.w)]]

\* C8: F *= n leaves in F, and F * n and n * F return, the flector whose eight
\* components are n times those of F; the value forms leave F unchanged and
\* the in-place form returns the receiver.
C8_Scale ==
    /\ op = "operator *=" => (F = EachTimes(orig, n) /\ ret = <<"this">>)
    /\ op = "operator *(F, n)" => (ret = <<"value", EachTimes(orig, n)>> /\ F = orig)
    /\ op = "operator *(n, F)" => (ret = <<"value", EachTimes(orig, n)>> /\ F = orig)

C8_Witness ==
    /\ op = "operator *(n, F)"
    /\ n = Num(0 - 1)
    /\ orig.g.w = One
    /\ orig.p.x = Num(0 - 1)
    /\ ret[2].g.w = Num(0 - 1)
    /\ ret[2].p.x = One

\* C7: a flector built or assigned from a point alone has the point as its
\* vector part and a zero trivector part; from a plane alone, the plane as its
\* trivector part and a zero vector part; from a (point, plane) pair, both
\* parts as given.  A Point3D gives p.w = 1 and a Vector4D gives its own w.
C7_Construction ==
    /\ op \in {"Flector3D(Vector4D, Plane3D)", "Set(Vector4D, Plane3D)"} =>
          (F.p = point /\ F.p.w = point.w /\ F.g = plane)
    /\ op \in {"Flector3D(Point3D, Plane3D)", "Set(Point3D, Plane3D)"} =>
          (F.p = [x |-> point.x, y |-> point.y, z |-> point.z, w |-> One] /\ F.g = plane)
    /\ op \in {"Flector3D(Vector4D)", "operator =(Vector4D)"} =>
          (F.p = point /\ F.p.w = point.w /\ F.g = Zero4)
    /\ op \in {"Flector3D(Point3D)", "operator =(Point3D)"} =>
          (F.p = [x |-> point.x, y |-> point.y, z |-> point.z, w |-> One] /\ F.g = Zero4)
    /\ op \in {"Flector3D(Plane3D)", "operator =(Plane3D)"} =>
          (F.g = plane /\ F.p = Zero4)

C7_Witness ==
    /\ op = "operator =(Point3D)"
    /\ orig.g.x = Num(0 - 1)
    /\ orig.p.w = Num(0 - 1)
    /\ point = Point3DSet(One, Zero, Num(0 - 1))
    /\ F.p.w = One
    /\ F.g = Zero4

NormalSquared(h) == FAdd(FAdd(Sq(h.x), Sq(h.y)), Sq(h.z))

\* C1: for a plane of unit weight, whatever the offset and plane.w, the
\* flector MakeTransflection returns has squared weight
\* p.w^2 + g.x^2 + g.y^2 + g.z^2 = 1.
C1_TransflectionUnitized ==
    (op = "MakeTransflection" /\ NormalSquared(plane) = One) =>
        WeightSquared(ret[2]) = One

C1_Witness ==
    /\ op = "MakeTransflection"
    /\ NormalSquared(plane) = One
    /\ plane.w = Num(0 - 1)
    /\ offset = Point3DSet(One, Num(0 - 1), One)
    /\ ret[2].g.w # plane.w
    /\ ret[2].p.x # Zero

\* C2: MakeTransflection with the zero offset returns the flector
\* (0, 0, 0, 0, plane.x, plane.y, plane.z, plane.w), equal under operator ==
\* to the flector constructed from those eight floats; for the plane
\* (0, 0, 1, 0) that is Flector3D(0, 0, 0, 0, 0, 0, 1, 0).
C2_ZeroOffsetIsReflection ==
    (op = "MakeTransflection" /\ offset = Zero3) =>
        /\ ret[2] = [p |-> Zero4, g |-> plane]
        /\ OperatorEq(ret[2], Flector3D(Zero, Zero, Zero, Zero, plane.x, plane.y, plane.z, plane.w))
        /\ plane = Plane3DSet(Zero, Zero, One, Zero) =>
               OperatorEq(ret[2], Flector3D(Zero, Zero, Zero, Zero, Zero, Zero, One, Zero))

C2_Witness ==
    /\ op = "MakeTransflection"
    /\ offset = Zero3
    /\ plane = Plane3DSet(Zero, Zero, One, Zero)
    /\ ret = <<"value", Flector3D(Zero, Zero, Zero, Zero, Zero, Zero, One, Zero)>>

IsRotoreflection == op \in {"MakeRotoreflection(Bivector3D)", "MakeRotoreflection(Line3D)"}

\* C9: with (c, s) the cosine and sine of half the angle, v the direction of
\* the axis and n the normal of the plane, the flector either
\* MakeRotoreflection overload returns has squared weight
\* |n|^2 * (c^2 + s^2 * |v|^2); it is 1 when |n| = 1, |v| = 1 and
\* c^2 + s^2 = 1.
C9_RotoreflectionWeight ==
    IsRotoreflection =>
        LET t == CosSin(FMul(angle, Half))
            n2 == NormalSquared(plane)
            v2 == NormalSquared(axis.v)
        IN  /\ WeightSquared(ret[2]) = FMul(n2, FAdd(Sq(t.x), FMul(Sq(t.y), v2)))
            /\ (n2 = One /\ v2 = One /\ FAdd(Sq(t.x), Sq(t.y)) = One) =>
                   WeightSquared(ret[2]) = One

C9_Witness ==
    /\ op = "MakeRotoreflection(Line3D)"
    /\ angle = Num(2)
    /\ axis.v = Point3DSet(One, Zero, Zero)
    /\ axis.m = Point3DSet(Zero, Zero, Num(0 - 1))
    /\ plane = Plane3DSet(Zero, One, Zero, One)
    /\ WeightSquared(ret[2]) = One
    /\ ret[2].g.z # Zero
    /\ ret[2].g.y # Zero

\* C10: for a line with zero moment, MakeRotoreflection(angle, line, plane)
\* returns the same eight components as MakeRotoreflection(angle, v, plane)
\* for the line's direction v; with any moment, p.w, g.x, g.y and g.z are
\* those of the bivector overload.
C10_OverloadsAgree ==
    op = "MakeRotoreflection(Line3D)" =>
        LET b == MakeRotoreflectionBivector(angle, axis.v, plane)
        IN  /\ axis.m = Zero3 => ret[2] = b
            /\ ret[2].p.w = b.p.w
            /\ ret[2].g.x = b.g.x
            /\ ret[2].g.y = b.g.y
            /\ ret[2].g.z = b.g.z

C10_Witness ==
    /\ op = "MakeRotoreflection(Line3D)"
    /\ axis.m = Zero3
    /\ axis.v = Point3DSet(One, Num(0 - 1), Zero)
    /\ angle = Num(0 - 2)
    /\ plane.w = One
    /\ plane.x = One
    /\ ret[2].g.w = CosUnit
    /\ ret[2].p.x # Zero

\* C5: a volatile Set or assignment stores the eight floats one after the
\* other, so that after k stores F holds the first k floats of the new value
\* and the remaining floats of the old one; a reader that begins after the
\* last store reads exactly the new value.  (A reader that runs alongside the
\* writer can read a flector that is neither: C5_Witness.)
C5_VolatileWrite ==
    /\ \A i \in 1 .. Len(Fields) :
           FieldOf(F, i) = IF i <= wpc THEN FieldOf(newval, i) ELSE FieldOf(orig, i)
    /\ (late /\ rpc = Len(Fields)) => seen = newval

C5_Witness ==
    /\ rpc = Len(Fields)
    /\ orig.p # newval.p
    /\ orig.g # newval.g
    /\ seen # orig
    /\ seen # newval
    /\ seen.p = newval.p
    /\ seen.g = orig.g

\* The flector with all eight components of f negated.
AllNegated(f) ==
    LET m(c) == Num(0 - IntOf(c))
    IN  [p |-> [x |-> m(f.p.x), y |-> m(f.p.y), z |-> m(f.p.z), w |-> m(f.p.w)],
         g |-> [x |-> m(f.g.x), y |-> m(f.g.y), z |-> m(f.g.z), w |-> m(f.g.w)]]

\* The squared bulk p.x^2 + p.y^2 + p.z^2 + g.w^2 of a flector.
BulkSquared(f) == FAdd(FAdd(FAdd(Sq(f.p.x), Sq(f.p.y)), Sq(f.p.z)), Sq(f.g.w))

\* In every state of a chain the value is F, -F, Reverse(F) or -Reverse(F) of
\* the flector the chain began with, with that flector's squared norms; each
\* operation applied twice to it gives it back, and negation commutes with
\* Reverse on it.
ChainState ==
    /\ F \in {orig, AllNegated(orig), VectorPartNegated(orig),
              AllNegated(VectorPartNegated(orig))}
    /\ BulkSquared(F) = BulkSquared(orig)
    /\ WeightSquared(F) = WeightSquared(orig)
    /\ OperatorNeg(OperatorNeg(F)) = F
    /\ Reverse(Reverse(F)) = F
    /\ Antireverse(Antireverse(F)) = F
    /\ OperatorTilde(OperatorTilde(F)) = F
    /\ OperatorNeg(Reverse(F)) = Reverse(OperatorNeg(F))

\* A step that repeats the operation of the step before it gives F the value
\* it had before that step.
ChainRepeat == (op' = op) => (F' = before)

\* C11: along any chain of negation, Reverse, Antireverse and operator ~ from
\* a flector F, the value is always one of F, -F, Reverse(F), -Reverse(F); an
\* operation applied twice in a row restores the value it started from;
\* negation commutes with Reverse; and the squared bulk norm and squared
\* weight norm never change.
C11_ChainClosed == []ChainState /\ [][ChainRepeat]_vars

C11_Witness ==
    /\ op = "operator -"
    /\ orig = Flector3D(One, Num(0 - 1), One, One, One, One, Num(0 - 1), One)
    /\ before = VectorPartNegated(orig)
    /\ F = [p |-> orig.p, g |-> AllNegated(orig).g]
    /\ F # orig

====
